---- MODULE Spec2Model ----
(***************************************************************************)
(* A model of move-tree (crates/move-tree/src/main.rs): the dependency     *)
(* graph walker, the tree renderer, the module model builder, the          *)
(* signature formatter, the environment fallback loop and the driver.      *)
(***************************************************************************)
EXTENDS Integers, Sequences, FiniteSets, TLC

VARIABLES
    pc,            \* the position of the program
    root_package,  \* the resolved graph: package id -> (dependency name -> package id)
    visited,       \* print_dependency_graph's BTreeSet<String> of package ids
    stack,         \* the call stack of print_dependency_tree, innermost frame last
    calls,         \* how many times print_dependency_tree was entered
    stdout,        \* the lines printed so far
    compiled,      \* the compiled package: its root modules, in root_modules() order
    modules,       \* collect_modules' Vec<ModuleInfo>
    module_index,  \* print_package_tree's position in modules
    func_index,    \* print_package_tree's position in the module's functions
    module,        \* the CompiledModule a signature token is formatted in
    token,         \* the SignatureToken handed to format_signature_token
    formatted,     \* the String format_signature_token returned
    envs,          \* the environments of the package as iterated, once read
    env_index,     \* how many environments the loop over envs has been through
    last_error,    \* the fallback loop's last_error
    attempts,      \* the external attempts made so far: environment and outcome
    result,        \* what compile_package or load_dependency_graph returned
    args_deps,     \* args.deps
    package_roots, \* the package roots find_move_packages returned
    root_index,    \* how many package roots main's loop has entered
    first,         \* main's first
    exit           \* what main returned

depsVars == <<root_package, visited, stack, calls>>
treeVars == <<compiled, modules, module_index, func_index>>
fmtVars == <<module, token, formatted>>
envVars == <<envs, env_index, last_error, attempts, result>>
mainVars == <<args_deps, package_roots, root_index, first, exit>>

vars == <<pc, depsVars, treeVars, fmtVars, envVars, mainVars, stdout>>

\* The value of a variable the part of the program at work does not hold.
Idle == "idle"

\* Option: None, Some(value)
None == <<>>
Some(value) == <<value>>

\* ()
Unit == "()"

IdleDeps == root_package = Idle /\ visited = Idle /\ stack = Idle /\ calls = Idle

IdleTree == compiled = Idle /\ modules = Idle /\ module_index = Idle /\ func_index = Idle

IdleFormat == module = Idle /\ token = Idle /\ formatted = Idle

IdleEnv ==
    envs = Idle /\ env_index = Idle /\ last_error = Idle /\ attempts = Idle /\ result = Idle

IdleMain ==
    args_deps = Idle /\ package_roots = Idle /\ root_index = Idle /\ first = Idle /\ exit = Idle

\* main inside its loop, at the one package root args.path itself is.
AtOnlyRoot(deps) ==
    /\ args_deps = deps
    /\ package_roots = <<<<>>>>
    /\ root_index = 1
    /\ first = FALSE
    /\ exit = None

(***************************************************************************)
(* Bounds of the model.                                                    *)
(***************************************************************************)
\* The most dependency edges a resolved graph holds.
MaxEdges == 4
\* The most function definitions a compiled package holds, all modules together.
MaxDefs == 3
\* The most constructors a signature token is built of.
MaxTokenSize == 3
\* The most environments a package declares.
MaxEnvs == 2
\* The most package roots find_move_packages finds.
MaxRoots == 2

(***************************************************************************)
(* Strings and their order.  Rust compares str byte-wise; every identifier *)
(* of the model is listed here in that order.                              *)
(***************************************************************************)
StrOrder ==
    <<"Coin", "Order", "a", "b", "b_1", "burn", "coin", "market", "mint", "root", "swap">>

StrRank(s) == CHOOSE i \in 1..Len(StrOrder) : StrOrder[i] = s

\* str::cmp / String::cmp
StrCmp(l, r) ==
    IF StrRank(l) < StrRank(r) THEN "Less"
    ELSE IF StrRank(l) > StrRank(r) THEN "Greater"
    ELSE "Equal"

\* Ordering::then_with
ThenWith(ordering, other) == IF ordering = "Equal" THEN other ELSE ordering

Range(s) == {s[i] : i \in DOMAIN s}

\* The sum of a function's values.
Sum(f) ==
    LET sum[T \in SUBSET DOMAIN f] ==
            IF T = {} THEN 0
            ELSE LET x == CHOOSE x \in T : TRUE IN f[x] + sum[T \ {x}]
    IN  sum[DOMAIN f]

\* slice::sort_by: a stable sort, here by insertion; cmp[l, r] is the closure's
\* answer on two elements of s.
SortBy(s, cmp) ==
    LET Insert(acc, x) ==
            LET k == Cardinality({i \in 1..Len(acc) : cmp[acc[i], x] # "Greater"})
            IN  SubSeq(acc, 1, k) \o <<x>> \o SubSeq(acc, k + 1, Len(acc))
        srt[i \in 0..Len(s)] == IF i = 0 THEN <<>> ELSE Insert(srt[i - 1], s[i])
    IN  srt[Len(s)]

(***************************************************************************)
(* The resolved package graph (move_package_alt::graph::PackageInfo).      *)
(***************************************************************************)
PkgIds == {"root", "a", "b", "b_1"}
DepNames == {"a", "b"}
RootId == "root"

\* PackageInfo::display_name: the resolver names a second package "b" b_1.
DisplayName(id) == IF id = "b_1" THEN "b" ELSE id

\* The (package, dependency name) places an edge can occupy.
EdgeSlots == PkgIds \X DepNames

GraphOf(edges) ==
    [p \in PkgIds |->
        [n \in {m \in DepNames : <<p, m>> \in DOMAIN edges} |-> edges[<<p, n>>]]]

\* PackageInfo::direct_deps, as the set of its (name, package) entries.
DirectDeps(g, p) == {[name |-> n, id |-> g[p][n]] : n \in DOMAIN g[p]}

\* The package ids reachable from the root along dependency edges.
Reachable(g) ==
    LET step[i \in 0..Cardinality(PkgIds)] ==
            IF i = 0 THEN {RootId}
            ELSE step[i - 1] \cup {d.id : d \in UNION {DirectDeps(g, p) : p \in step[i - 1]}}
    IN  step[Cardinality(PkgIds)]

\* A graph a resolver hands over: every package with dependencies is reachable
\* from the root.
Resolved(g) == \A p \in PkgIds : DOMAIN g[p] # {} => p \in Reachable(g)

\* The orders in which iterating a mapping's entries can yield them.
YieldOrders(S) ==
    {s \in [1..Cardinality(S) -> S] : \A i, j \in DOMAIN s : i # j => s[i] # s[j]}

(***************************************************************************)
(* print_dependency_graph and print_dependency_tree.                       *)
(***************************************************************************)
\* A printed line: its prefix (one continuation segment per level), its branch
\* marker, its text and whether " (shared)" follows.  depth and dep tag the line
\* with the nesting of the call that printed it and with the entry it is for.
Line(kind, depth, prefix, branch, label, dep, shared) ==
    [kind |-> kind, depth |-> depth, prefix |-> prefix, branch |-> branch,
     label |-> label, dep |-> dep, shared |-> shared]

NoDep == [name |-> "", id |-> ""]

\* The comparator of deps.sort_by.
DepCmp(left, right) ==
    ThenWith(StrCmp(left.name, right.name), StrCmp(left.id, right.id))

SortDepsById(deps) ==
    SortBy(deps, [left \in Range(deps), right \in Range(deps) |-> StrCmp(left.id, right.id)])

\* deps.sort_by(...)
SortDeps(deps) ==
    SortBy(deps, [left \in Range(deps), right \in Range(deps) |-> DepCmp(left, right)])

\* render_dependency_label
RenderDependencyLabel(dep_name, id) ==
    <<DisplayName(id)>>
    \o (IF dep_name # DisplayName(id) THEN <<" (", dep_name, ")">> ELSE <<>>)
    \o (IF id # DisplayName(id) THEN <<" [", id, "]">> ELSE <<>>)

\* Entering print_dependency_tree(package, prefix, visited): deps collected and sorted.
Frame(package, prefix, yielded) ==
    [package |-> package, prefix |-> prefix, deps |-> SortDeps(yielded), index |-> 0]

Top == stack[Len(stack)]

AlreadySeenNever(dep_id) == FALSE

\* already_seen = !visited.insert(dep_id)
AlreadySeen(dep_id) == dep_id \in visited

IsLast(index, deps_len) == index + 1 = deps_len

\* The branch markers; TerminalBranch stands for the source's backtick marker,
\* a character a TLA+ string cannot hold.
TerminalBranch == "'-- "
ThroughBranch == "|-- "
BlankContinuation == "    "
VerticalContinuation == "|   "

BranchThrough(is_last) == ThroughBranch

Branch(is_last) == IF is_last THEN TerminalBranch ELSE ThroughBranch

ChildPrefix(is_last) == IF is_last THEN BlankContinuation ELSE VerticalContinuation

NextPrefix(prefix, child_prefix) == prefix \o <<child_prefix>>

\* The root main is at, relative to args.path.
CurrentRoot == package_roots[root_index]

\* The header line of either tree: the label, the name and, unless the package
\* root is args.path itself, its path relative to args.path.
Header(package_label, package_name) ==
    Line("header", 0, <<>>, "",
         <<package_label, " ", package_name>>
         \o (IF CurrentRoot # <<>> THEN <<" ", "(", CurrentRoot[1], ")">> ELSE <<>>),
         NoDep, FALSE)

InitialVisitedEmpty == {}

\* visited = BTreeSet::new(); visited.insert(root_info.id().to_string())
InitialVisited == {RootId}

RootHasNoDepsUnchecked(g) == FALSE

\* root_info.direct_deps().is_empty()
RootHasNoDeps(g) == DirectDeps(g, RootId) = {}

\* print_dependency_graph up to its call of print_dependency_tree.
PrintDependencyGraph ==
    /\ pc = "print_dependency_graph"
    /\ visited' = InitialVisited
    /\ LET header == Header("deps", DisplayName(RootId))
       IN  IF RootHasNoDeps(root_package)
           THEN /\ stdout' = stdout \o <<header,
                        Line("nodeps", 0, <<>>, TerminalBranch, <<"(no dependencies)">>, NoDep, FALSE)>>
                /\ pc' = "rendered"
                /\ UNCHANGED <<stack, calls>>
           ELSE \E yielded \in YieldOrders(DirectDeps(root_package, RootId)) :
                /\ stdout' = stdout \o <<header>>
                /\ stack' = <<Frame(RootId, <<>>, yielded)>>
                /\ calls' = calls + 1
                /\ pc' = "print_dependency_tree"
    /\ UNCHANGED <<root_package, treeVars, fmtVars, envVars, mainVars>>

\* One iteration of print_dependency_tree's loop over the sorted deps.
DependencyLine ==
    /\ pc = "print_dependency_tree"
    /\ Top.index < Len(Top.deps)
    /\ LET frame == Top
           entry == frame.deps[frame.index + 1]
           is_last == IsLast(frame.index, Len(frame.deps))
           dep_id == entry.id
           already_seen == AlreadySeen(dep_id)
           line == Line("dep", Len(stack) - 1, frame.prefix, Branch(is_last),
                        RenderDependencyLabel(entry.name, dep_id), entry, already_seen)
           advanced == [stack EXCEPT ![Len(stack)].index = frame.index + 1]
       IN  /\ visited' = visited \cup {dep_id}
           /\ stdout' = Append(stdout, line)
           /\ IF already_seen
              THEN /\ stack' = advanced
                   /\ UNCHANGED calls
              ELSE \E yielded \in YieldOrders(DirectDeps(root_package, dep_id)) :
                   /\ stack' = Append(advanced,
                          Frame(dep_id, NextPrefix(frame.prefix, ChildPrefix(is_last)), yielded))
                   /\ calls' = calls + 1
    /\ UNCHANGED <<pc, root_package, treeVars, fmtVars, envVars, mainVars>>

\* print_dependency_tree returns once its loop is over.
DependencyReturn ==
    /\ pc = "print_dependency_tree"
    /\ Top.index = Len(Top.deps)
    /\ stack' = SubSeq(stack, 1, Len(stack) - 1)
    /\ pc' = IF Len(stack) = 1 THEN "rendered" ELSE pc
    /\ UNCHANGED <<root_package, visited, calls, stdout, treeVars, fmtVars, envVars, mainVars>>

InitDeps ==
    /\ pc = "print_dependency_graph"
    /\ \E S \in SUBSET EdgeSlots :
          /\ Cardinality(S) <= MaxEdges
          /\ \E edges \in [S -> PkgIds] :
                /\ root_package = GraphOf(edges)
                /\ Resolved(root_package)
    /\ visited = {}
    /\ stack = <<>>
    /\ calls = 0
    /\ stdout = <<>>
    /\ IdleTree /\ IdleFormat /\ IdleEnv /\ AtOnlyRoot(TRUE)

NextDeps == PrintDependencyGraph \/ DependencyLine \/ DependencyReturn

SpecDeps == InitDeps /\ [][NextDeps]_vars

(***************************************************************************)
(* The binary format (move_binary_format::file_format).  The modules of    *)
(* the modelled package share their handle tables; a handle's identifier   *)
(* is written in place of its index into the identifier pool, a function   *)
(* handle's signatures in place of their indices into the signature pool,  *)
(* and table indices count from 1.                                         *)
(***************************************************************************)
ModuleHandles ==
    <<[address |-> "0x0", name |-> "coin"],
      [address |-> "0x0", name |-> "market"],
      [address |-> "0x2", name |-> "coin"]>>

DatatypeHandles ==
    <<[module |-> 1, name |-> "Coin"],
      [module |-> 2, name |-> "Order"],
      [module |-> 3, name |-> "Coin"]>>

\* The modules of the package: the handles of 0x0::coin and 0x0::market.
SelfHandles == {1, 2}

TypeParameterIndices == {0, 1}

Primitives == {"Bool", "U8", "U16", "U32", "U64", "U128", "U256", "Address", "Signer"}

Primitive(tag) == [tag |-> tag]
Vector(inner) == [tag |-> "Vector", inner |-> inner]
Reference(inner) == [tag |-> "Reference", inner |-> inner]
MutableReference(inner) == [tag |-> "MutableReference", inner |-> inner]
TypeParameter(index) == [tag |-> "TypeParameter", index |-> index]
Datatype(handle) == [tag |-> "Datatype", handle |-> handle]
DatatypeInstantiation(handle, args) ==
    [tag |-> "DatatypeInstantiation", handle |-> handle, args |-> args]

\* The signature tokens built of exactly n constructors, and the non-empty
\* type-argument lists built of exactly n.
RECURSIVE TokensOfSize(_), ArgListsOfSize(_)
TokensOfSize(n) ==
    IF n = 1
    THEN {Primitive(t) : t \in Primitives}
         \cup {TypeParameter(i) : i \in TypeParameterIndices}
         \cup {Datatype(h) : h \in DOMAIN DatatypeHandles}
         \cup {DatatypeInstantiation(h, <<>>) : h \in DOMAIN DatatypeHandles}
    ELSE {Vector(t) : t \in TokensOfSize(n - 1)}
         \cup {Reference(t) : t \in TokensOfSize(n - 1)}
         \cup {MutableReference(t) : t \in TokensOfSize(n - 1)}
         \cup {DatatypeInstantiation(h, a) :
                  h \in DOMAIN DatatypeHandles, a \in ArgListsOfSize(n - 1)}
ArgListsOfSize(n) ==
    {<<t>> : t \in TokensOfSize(n)}
    \cup UNION {{<<t>> \o rest : t \in TokensOfSize(k), rest \in ArgListsOfSize(n - k)} :
                   k \in 1..(n - 1)}

Tokens(max) == UNION {TokensOfSize(n) : n \in 1..max}

\* A CompiledModule: its self handle and its function definitions.
CompiledModule(self, function_defs) ==
    [self_module_handle_idx |-> self, function_defs |-> function_defs]

\* CompiledModule::name
ModuleName(m) == ModuleHandles[m.self_module_handle_idx].name

(***************************************************************************)
(* format_signature_token and format_datatype.  A String is the sequence   *)
(* of the pieces it is put together from; format! and join concatenate.    *)
(***************************************************************************)
\* [String]::join
Join(parts, sep) ==
    LET join[i \in 0..Len(parts)] ==
            IF i = 0 THEN <<>>
            ELSE IF i = 1 THEN parts[1]
            ELSE join[i - 1] \o <<sep>> \o parts[i]
    IN  join[Len(parts)]

\* is_self = handle.module == module.self_handle_idx()
IsSelf(m, handle) == handle.module = m.self_module_handle_idx

HasTypeArgsAlways(type_args) == TRUE

\* !type_args.is_empty()
HasTypeArgs(type_args) == type_args # <<>>

RECURSIVE FormatSignatureToken(_, _), FormatDatatype(_, _, _)
FormatSignatureToken(m, tok) ==
    CASE tok.tag = "Bool" -> <<"bool">>
      [] tok.tag = "U8" -> <<"u8">>
      [] tok.tag = "U16" -> <<"u16">>
      [] tok.tag = "U32" -> <<"u32">>
      [] tok.tag = "U64" -> <<"u64">>
      [] tok.tag = "U128" -> <<"u128">>
      [] tok.tag = "U256" -> <<"u256">>
      [] tok.tag = "Address" -> <<"address">>
      [] tok.tag = "Signer" -> <<"signer">>
      [] tok.tag = "Vector" ->
            <<"vector<">> \o FormatSignatureToken(m, tok.inner) \o <<">">>
      [] tok.tag = "Datatype" -> FormatDatatype(m, tok.handle, <<>>)
      [] tok.tag = "DatatypeInstantiation" -> FormatDatatype(m, tok.handle, tok.args)
      [] tok.tag = "Reference" -> <<"&">> \o FormatSignatureToken(m, tok.inner)
      [] tok.tag = "MutableReference" ->
            <<"&mut ">> \o FormatSignatureToken(m, tok.inner)
      [] tok.tag = "TypeParameter" -> <<"T", ToString(tok.index)>>
FormatDatatype(m, handle_index, type_args) ==
    LET handle == DatatypeHandles[handle_index]
        module_handle == ModuleHandles[handle.module]
        module_name == module_handle.name
        type_name == handle.name
        is_self == IsSelf(m, handle)
        name == IF is_self THEN <<type_name>> ELSE <<module_name, "::", type_name>>
    IN  IF HasTypeArgs(type_args)
        THEN LET args == Join([i \in DOMAIN type_args |->
                                  FormatSignatureToken(m, type_args[i])], ", ")
             IN  name \o <<"<">> \o args \o <<">">>
        ELSE name

\* One call of format_signature_token.
FormatToken ==
    /\ pc = "format_signature_token"
    /\ formatted' = FormatSignatureToken(module, token)
    /\ pc' = "formatted"
    /\ UNCHANGED <<module, token, depsVars, treeVars, stdout, envVars, mainVars>>

InitFormat ==
    /\ pc = "format_signature_token"
    /\ module \in {CompiledModule(self, <<>>) : self \in SelfHandles}
    /\ token \in Tokens(MaxTokenSize)
    /\ formatted = Idle
    /\ IdleDeps /\ IdleTree /\ IdleEnv /\ IdleMain
    /\ stdout = <<>>

NextFormat == FormatToken

SpecFormat == InitFormat /\ [][NextFormat]_vars

(***************************************************************************)
(* collect_modules.                                                        *)
(***************************************************************************)
\* The function handles of a module of the package.
FunctionHandles ==
    <<[name |-> "mint", type_parameters |-> 1,
       parameters |-> <<Primitive("U64"), MutableReference(DatatypeInstantiation(2, <<TypeParameter(0)>>))>>,
       return_ |-> <<DatatypeInstantiation(1, <<TypeParameter(0)>>)>>],
      [name |-> "swap", type_parameters |-> 0,
       parameters |-> <<Reference(Datatype(1)), Vector(Primitive("U8"))>>,
       return_ |-> <<Datatype(3), Datatype(2)>>],
      [name |-> "burn", type_parameters |-> 0,
       parameters |-> <<Datatype(1)>>,
       return_ |-> <<>>]>>

Visibilities == {"Private", "Public", "Friend"}

\* The function definition tables: each function defined at most once.
FunctionDefs(max) ==
    UNION {{s \in [1..n -> (DOMAIN FunctionHandles) \X Visibilities] :
               \A i, j \in 1..n : i # j => s[i][1] # s[j][1]} : n \in 0..max}

FunctionDefinition(entry) == [function |-> entry[1], visibility |-> entry[2]]

\* function_def.visibility != Visibility::Public is skipped
IsPublic(function_def) == function_def.visibility = "Public"

\* The FunctionInfo pushed for one public function definition.
FunctionInfoOf(m, function_def) ==
    LET handle == FunctionHandles[function_def.function]
    IN  [name |-> handle.name,
         type_params |-> [idx \in 1..handle.type_parameters |-> <<"T", ToString(idx - 1)>>],
         params |-> [i \in DOMAIN handle.parameters |->
                        FormatSignatureToken(m, handle.parameters[i])],
         returns |-> [i \in DOMAIN handle.return_ |->
                        FormatSignatureToken(m, handle.return_[i])]]

\* The comparator of both sort_by calls: a.name.cmp(&b.name)
NameCmp(a, b) == StrCmp(a.name, b.name)

SortFunctionsNone(functions) == functions

\* functions.sort_by(|a, b| a.name.cmp(&b.name))
SortFunctions(functions) ==
    SortBy(functions, [a \in Range(functions), b \in Range(functions) |-> NameCmp(a, b)])

\* modules.sort_by(|a, b| a.name.cmp(&b.name))
SortModules(infos) ==
    SortBy(infos, [a \in Range(infos), b \in Range(infos) |-> NameCmp(a, b)])

\* The ModuleInfo pushed for one root module.
ModuleInfoOf(m) ==
    LET public == SelectSeq(m.function_defs, IsPublic)
        functions == [i \in DOMAIN public |-> FunctionInfoOf(m, public[i])]
    IN  [name |-> ModuleName(m), functions |-> SortFunctions(functions)]

CollectModules(c) == SortModules([i \in DOMAIN c |-> ModuleInfoOf(c[i])])

(***************************************************************************)
(* render_function and print_package_tree.                                 *)
(***************************************************************************)
RenderFunction(function) ==
    LET type_params ==
            IF function.type_params = <<>> THEN <<>>
            ELSE <<"<">> \o Join(function.type_params, ", ") \o <<">">>
        params == <<"(">> \o Join(function.params, ", ") \o <<")">>
        returns ==
            IF function.returns = <<>> THEN <<"()">>
            ELSE LET rendered == Join(function.returns, ", ")
                 IN  IF Len(function.returns) = 1 THEN rendered
                     ELSE <<"(">> \o rendered \o <<")">>
    IN  <<"fun", " ", function.name>> \o type_params \o params \o <<": ">> \o returns

\* compiled.compiled_package_info.package_name
PackageName == "root"

\* let modules = collect_modules(&compiled)
CollectModulesCall ==
    /\ pc = "collect_modules"
    /\ modules' = CollectModules(compiled)
    /\ pc' = "print_package_tree"
    /\ UNCHANGED <<compiled, module_index, func_index, depsVars, fmtVars, stdout, envVars, mainVars>>

\* print_package_tree up to its loop over the modules.
PrintPackageHeader ==
    /\ pc = "print_package_tree"
    /\ stdout' = Append(stdout, Header("package", PackageName))
    /\ module_index' = 0
    /\ pc' = IF modules = <<>> THEN "rendered" ELSE "module_loop"
    /\ UNCHANGED <<compiled, modules, func_index, depsVars, fmtVars, envVars, mainVars>>

\* Where the loops stand once module module_index + 1 is done.
AfterModule == IF module_index + 1 = Len(modules) THEN "rendered" ELSE "module_loop"

\* One iteration of the loop over the modules, up to its loop over the functions.
PrintModuleLine ==
    /\ pc = "module_loop"
    /\ LET m == modules[module_index + 1]
           is_last_module == IsLast(module_index, Len(modules))
           module_prefix == Branch(is_last_module)
       IN  /\ stdout' = Append(stdout,
                 Line("module", 0, <<>>, module_prefix, <<"module", " ", m.name>>, NoDep, FALSE))
           /\ IF m.functions = <<>>
              THEN /\ module_index' = module_index + 1
                   /\ pc' = AfterModule
                   /\ UNCHANGED func_index
              ELSE /\ func_index' = 0
                   /\ pc' = "function_loop"
                   /\ UNCHANGED module_index
    /\ UNCHANGED <<compiled, modules, depsVars, fmtVars, envVars, mainVars>>

\* One iteration of the loop over a module's functions.
PrintFunctionLine ==
    /\ pc = "function_loop"
    /\ LET m == modules[module_index + 1]
           is_last_module == IsLast(module_index, Len(modules))
           child_prefix == ChildPrefix(is_last_module)
           function == m.functions[func_index + 1]
           is_last_function == IsLast(func_index, Len(m.functions))
           function_prefix == Branch(is_last_function)
       IN  /\ stdout' = Append(stdout,
                 Line("function", 1, <<child_prefix>>, function_prefix,
                      RenderFunction(function), NoDep, FALSE))
           /\ IF is_last_function
              THEN /\ module_index' = module_index + 1
                   /\ pc' = AfterModule
                   /\ UNCHANGED func_index
              ELSE /\ func_index' = func_index + 1
                   /\ UNCHANGED <<pc, module_index>>
    /\ UNCHANGED <<compiled, modules, depsVars, fmtVars, envVars, mainVars>>

\* The compiled packages: the root modules in any order, each module of the
\* package at most once, max function definitions in all.
InitTree ==
    /\ pc = "collect_modules"
    /\ \E n \in 0..Cardinality(SelfHandles) :
       \E selves \in [1..n -> SelfHandles] :
       \E defs \in [1..n -> FunctionDefs(MaxDefs)] :
          /\ \A i, j \in 1..n : i # j => selves[i] # selves[j]
          /\ Sum([i \in 1..n |-> Len(defs[i])]) <= MaxDefs
          /\ compiled = [i \in 1..n |->
                CompiledModule(selves[i],
                    [k \in DOMAIN defs[i] |-> FunctionDefinition(defs[i][k])])]
    /\ modules = <<>>
    /\ module_index = 0
    /\ func_index = 0
    /\ stdout = <<>>
    /\ IdleDeps /\ IdleFormat /\ IdleEnv /\ AtOnlyRoot(FALSE)

NextTree == CollectModulesCall \/ PrintPackageHeader \/ PrintModuleLine \/ PrintFunctionLine

SpecTree == InitTree /\ [][NextTree]_vars

\* Either tree of the tool.
InitRender == InitDeps \/ InitTree

NextRender == NextDeps \/ NextTree

SpecRender == InitRender /\ [][NextRender]_vars

(***************************************************************************)
(* compile_package and load_dependency_graph: the fallback over the        *)
(* package's environments.                                                 *)
(***************************************************************************)
EnvNames == {"devnet", "mainnet", "testnet"}

\* What RootPackage::environments can hand over: up to max environments, each
\* name once, in the order they are iterated.
EnvLists(max) ==
    UNION {{s \in [1..n -> EnvNames] : \A i, j \in 1..n : i # j => s[i] # s[j]} :
              n \in 0..max}

\* The causes an external call can fail with.
Causes == {"cause_1", "cause_2"}

\* The resolved graphs and the compiled packages an external call hands over here.
LoadedGraphs ==
    {GraphOf(<<>>), GraphOf([slot \in {<<RootId, "a">>} |-> "a"])}

LoadedPackages ==
    {<<>>, <<CompiledModule(1, <<[function |-> 3, visibility |-> "Public"]>>)>>}

Loaded == IF args_deps THEN LoadedGraphs ELSE LoadedPackages

\* Result: Ok(value), Err(error)
Ok(value) == [ok |-> TRUE, value |-> value]
Err(error) == [ok |-> FALSE, error |-> error]

\* What the two functions differ in: the words of their errors.
Task == IF args_deps THEN "load dependency graph" ELSE "compile package"

RecordErrorFirst(previous, name, err) ==
    IF previous = None THEN Some([name |-> name, err |-> err]) ELSE previous

\* last_error = Some((name, err))
RecordError(previous, name, err) == Some([name |-> name, err |-> err])

\* RootPackage::environments(path).with_context(..)?
ReadEnvironments ==
    /\ pc = "environments"
    /\ \/ /\ \E cause \in Causes :
                result' = Some(Err([message |-> "Failed to read environments for",
                                    path |-> CurrentRoot, source |-> cause]))
          /\ pc' = "returned"
          /\ UNCHANGED envs
       \/ /\ \E listed \in EnvLists(MaxEnvs) : envs' = Some(listed)
          /\ pc' = "attempts"
          /\ UNCHANGED result
    /\ last_error' = None
    /\ env_index' = 0
    /\ UNCHANGED <<attempts, mainVars, depsVars, treeVars, fmtVars, stdout>>

\* One iteration of the loop over envs: one attempt.
Attempt ==
    /\ pc = "attempts"
    /\ env_index < Len(envs[1])
    /\ LET name == envs[1][env_index + 1]
       IN  \/ \E value \in Loaded :
                /\ attempts' = Append(attempts, [name |-> name, outcome |-> "Ok"])
                /\ result' = Some(Ok(value))
                /\ pc' = "returned"
                /\ UNCHANGED <<last_error, env_index>>
           \/ \E err \in Causes :
                /\ attempts' = Append(attempts, [name |-> name, outcome |-> err])
                /\ last_error' = RecordError(last_error, name, err)
                /\ env_index' = env_index + 1
                /\ UNCHANGED <<result, pc>>
    /\ UNCHANGED <<envs, mainVars, depsVars, treeVars, fmtVars, stdout>>

\* After the loop: no attempt succeeded.
Exhausted ==
    /\ pc = "attempts"
    /\ env_index = Len(envs[1])
    /\ result' =
          IF last_error # None
          THEN Some(Err([message |-> "unable to " \o Task
                                        \o " for any environment; last attempt failed",
                         name |-> last_error[1].name, err |-> last_error[1].err]))
          ELSE Some(Err([message |-> "no environments available to " \o Task,
                         path |-> CurrentRoot]))
    /\ pc' = "returned"
    /\ UNCHANGED <<envs, env_index, last_error, attempts, mainVars, depsVars, treeVars,
                   fmtVars, stdout>>

InitEnv ==
    /\ pc = "environments"
    /\ args_deps \in BOOLEAN
    /\ package_roots = <<<<>>>>
    /\ root_index = 1
    /\ first = FALSE
    /\ exit = None
    /\ envs = None /\ env_index = 0 /\ last_error = None /\ attempts = <<>> /\ result = None
    /\ IdleDeps /\ IdleTree /\ IdleFormat
    /\ stdout = <<>>

NextEnv == ReadEnvironments \/ Attempt \/ Exhausted

SpecEnv == InitEnv /\ [][NextEnv]_vars

(***************************************************************************)
(* main.                                                                   *)
(***************************************************************************)
\* The package roots find_move_packages can find under args.path, relative to it.
RootPaths == {<<>>, <<"a">>, <<"b">>}

\* Path::cmp on these paths.
PathRank(path) == IF path = <<>> THEN 0 ELSE StrRank(path[1])

\* roots.into_iter().collect(): a BTreeSet iterates in ascending order.
IntoSortedVec(roots) ==
    CHOOSE s \in YieldOrders(roots) :
        \A i, j \in DOMAIN s : i < j => PathRank(s[i]) < PathRank(s[j])

FailedRootArg == <<>>

\* root.display() in the with_context closures
FailedRoot == CurrentRoot

\* package_roots.is_empty(): bail!
MainBail ==
    /\ pc = "main"
    /\ package_roots = <<>>
    /\ exit' = Some(Err([message |-> "No Move.toml found under", path |-> <<>>]))
    /\ pc' = "exit"
    /\ UNCHANGED <<args_deps, package_roots, root_index, first, envVars, depsVars,
                   treeVars, fmtVars, stdout>>

\* One iteration of the loop over package_roots, up to the external call.
MainIterate ==
    /\ pc \in {"main", "rendered"}
    /\ root_index < Len(package_roots)
    /\ stdout' = IF first THEN stdout
                 ELSE Append(stdout, Line("blank", 0, <<>>, "", <<>>, NoDep, FALSE))
    /\ first' = FALSE
    /\ root_index' = root_index + 1
    /\ envs' = None /\ env_index' = 0 /\ last_error' = None /\ attempts' = <<>>
    /\ result' = None
    /\ pc' = "environments"
    /\ UNCHANGED <<args_deps, package_roots, exit, depsVars, treeVars, fmtVars>>

\* The external call has returned: ? on its error, the rendering on its value.
MainAfterCall ==
    /\ pc = "returned"
    /\ IF ~result[1].ok
       THEN /\ exit' = Some(Err([message |-> "Failed to " \o Task \o " at",
                                 path |-> FailedRoot, source |-> result[1].error]))
            /\ pc' = "exit"
            /\ UNCHANGED <<depsVars, treeVars>>
       ELSE /\ IF args_deps
               THEN /\ root_package' = result[1].value
                    /\ visited' = {} /\ stack' = <<>> /\ calls' = 0
                    /\ pc' = "print_dependency_graph"
                    /\ UNCHANGED treeVars
               ELSE /\ compiled' = result[1].value
                    /\ modules' = <<>> /\ module_index' = 0 /\ func_index' = 0
                    /\ pc' = "collect_modules"
                    /\ UNCHANGED depsVars
            /\ UNCHANGED exit
    /\ UNCHANGED <<args_deps, package_roots, root_index, first, envVars, fmtVars, stdout>>

\* The loop is over: Ok(())
MainReturn ==
    /\ pc = "rendered"
    /\ root_index = Len(package_roots)
    /\ exit' = Some(Ok(Unit))
    /\ pc' = "exit"
    /\ UNCHANGED <<args_deps, package_roots, root_index, first, envVars, depsVars,
                   treeVars, fmtVars, stdout>>

InitMain ==
    /\ pc = "main"
    /\ args_deps \in BOOLEAN
    /\ \E roots \in SUBSET RootPaths :
          /\ Cardinality(roots) <= MaxRoots
          /\ package_roots = IntoSortedVec(roots)
    /\ root_index = 0
    /\ first = TRUE
    /\ exit = None
    /\ envs = None /\ env_index = 0 /\ last_error = None /\ attempts = <<>> /\ result = None
    /\ IdleDeps /\ IdleTree /\ IdleFormat
    /\ stdout = <<>>

NextMain ==
    \/ MainBail \/ MainIterate \/ MainAfterCall \/ MainReturn
    \/ NextEnv \/ NextDeps \/ NextTree

SpecMain == InitMain /\ [][NextMain]_vars

(***************************************************************************)
(* The shape of the printed tree, read off the lines' tags.                *)
(***************************************************************************)
DepLines == {i \in 1..Len(stdout) : stdout[i].kind = "dep"}

\* The lines printed beneath line i: those that follow it at a greater depth.
Nested(i) ==
    {j \in (i + 1)..Len(stdout) : \A k \in (i + 1)..j : stdout[k].depth > stdout[i].depth}

Children(i) == {j \in Nested(i) : stdout[j].depth = stdout[i].depth + 1}

\* j is a later line of the same parent as i.
LaterSibling(i, j) ==
    /\ i < j
    /\ stdout[j].depth = stdout[i].depth
    /\ \A k \in (i + 1)..(j - 1) : stdout[k].depth > stdout[i].depth

LinesOf(id) == {i \in DepLines : stdout[i].dep.id = id}

IsFirstLineOf(i) == \A j \in LinesOf(stdout[i].dep.id) : i <= j

\* The lines of a set of indices, in output order.
InOrder(S) ==
    LET pick[n \in 0..Cardinality(S)] ==
            IF n = 0 THEN <<>>
            ELSE LET i == CHOOSE i \in S :
                              Cardinality({j \in S : j < i}) = n - 1
                 IN  Append(pick[n - 1], stdout[i].dep)
    IN  pick[Cardinality(S)]

Walking == pc = "print_dependency_tree"
Rendered == pc = "rendered"

(***************************************************************************)
(* C1: every package reachable from the root, the root excepted, has       *)
(* exactly one line without "(shared)", the first line for it, with its    *)
(* dependencies expanded beneath; every other line for it, and every line  *)
(* for the root, carries "(shared)" and has nothing beneath it.            *)
(***************************************************************************)
C1_SharedOnce ==
    /\ \A i \in DepLines :
          /\ stdout[i].dep.id \in Reachable(root_package)
          /\ ~stdout[i].shared <=> (stdout[i].dep.id # RootId /\ IsFirstLineOf(i))
          /\ stdout[i].shared => Nested(i) = {}
    /\ Rendered =>
          /\ \A id \in Reachable(root_package) \ {RootId} :
                Cardinality({i \in LinesOf(id) : ~stdout[i].shared}) = 1
          /\ \A i \in DepLines :
                ~stdout[i].shared =>
                    {stdout[j].dep : j \in Children(i)}
                        = DirectDeps(root_package, stdout[i].dep.id)

\* A diamond: a package printed twice, expanded at its first line only.
C1_Witness ==
    /\ Rendered
    /\ \E i, j \in DepLines :
          /\ i < j
          /\ stdout[i].dep.id = stdout[j].dep.id
          /\ stdout[i].depth = 1 /\ stdout[j].depth = 1
          /\ ~stdout[i].shared /\ stdout[j].shared
          /\ Children(i) # {}

(***************************************************************************)
(* C2: the walk terminates on every finite graph, cycles included: an edge *)
(* to a package already visited is printed "(shared)" and not recursed     *)
(* into, print_dependency_tree is entered at most once per reachable       *)
(* package, every step brings the walk closer to its end, and the walk     *)
(* ends.                                                                   *)
(***************************************************************************)
OutDegree(id) == Cardinality(DirectDeps(root_package, id))

\* The work left: the entries the open calls have yet to print, and the
\* packages yet to be expanded with theirs.
Variant ==
    LET left == [k \in DOMAIN stack |-> Len(stack[k].deps) - stack[k].index]
        fresh == [id \in PkgIds \ visited |-> 1 + OutDegree(id)]
    IN  2 * (Sum(left) + Sum(fresh)) + Len(stack)

C2_StepTerminates ==
    Walking =>
        /\ Variant' < Variant
        /\ Variant' >= 0
        /\ calls' <= Cardinality(Reachable(root_package))
        /\ (Len(stdout') > Len(stdout) /\ stdout'[Len(stdout')].dep.id \in visited) =>
              /\ stdout'[Len(stdout')].shared
              /\ Len(stack') = Len(stack)
              /\ calls' = calls

C2_Terminates == [][C2_StepTerminates]_vars /\ <>Rendered

\* A cycle between two packages, or a package depending on itself: the walk has
\* ended and the edge back to a package being expanded is a "(shared)" line.
C2_Witness ==
    /\ Rendered
    /\ \E i \in DepLines : \E j \in Nested(i) :
          /\ stdout[j].dep.id = stdout[i].dep.id
          /\ stdout[j].shared
          /\ stdout[j].depth > stdout[i].depth + 1
    /\ \E i \in DepLines : \E j \in Children(i) :
          stdout[j].dep.id = stdout[i].dep.id /\ stdout[j].shared

(***************************************************************************)
(* C3: the visited set starts as {root}, only grows, holds the root and    *)
(* the packages of the lines printed so far, and takes each package in at  *)
(* its first line, before that package's own dependencies are walked.      *)
(***************************************************************************)
C3_VisitedIsPrinted ==
    (Walking \/ Rendered) =>
        /\ visited = {RootId} \cup {stdout[i].dep.id : i \in DepLines}
        /\ \A k \in DOMAIN stack : stack[k].package \in visited

C3_StepVisited ==
    /\ pc = "print_dependency_graph" => visited' = {RootId}
    /\ pc # "print_dependency_graph" =>
          /\ visited \subseteq visited'
          /\ visited' # visited =>
                LET line == stdout'[Len(stdout')] IN
                /\ Len(stdout') = Len(stdout) + 1
                /\ visited' = visited \cup {line.dep.id}
                /\ ~line.shared
                /\ \A i \in DepLines : stdout[i].dep.id # line.dep.id
                /\ Len(stack') = Len(stack) + 1
                /\ stack'[Len(stack')].package = line.dep.id
                /\ stack'[Len(stack')].index = 0
    /\ C3_VisitedIsPrinted
    /\ C3_VisitedIsPrinted'

C3_VisitedSet == [][C3_StepVisited]_vars

\* Three packages visited, the walk two calls deep.
C3_Witness ==
    /\ Walking
    /\ Cardinality(visited) >= 3
    /\ Len(stack) >= 3

(***************************************************************************)
(* C4: "(no dependencies)" is printed exactly when the root has no direct  *)
(* dependencies, and is then the only line under the header; a dependency  *)
(* without dependencies has its line and nothing beneath it.               *)
(***************************************************************************)
NoDepsLines == {i \in 1..Len(stdout) : stdout[i].kind = "nodeps"}

C4_NoDependencies ==
    /\ NoDepsLines # {} => DirectDeps(root_package, RootId) = {}
    /\ Rendered =>
          /\ DirectDeps(root_package, RootId) = {} =>
                /\ Len(stdout) = 2
                /\ stdout[1].kind = "header"
                /\ stdout[2].kind = "nodeps"
          /\ \A i \in DepLines :
                DirectDeps(root_package, stdout[i].dep.id) = {} => Nested(i) = {}

C4_Witness == Rendered /\ NoDepsLines # {}

(***************************************************************************)
(* C5: at every package of the walk the direct dependencies are taken in   *)
(* ascending order of (dependency name, package id), whatever order the    *)
(* mapping yields them in.                                                 *)
(***************************************************************************)
Ascending(deps) ==
    \A i, j \in DOMAIN deps :
        i < j => \/ StrRank(deps[i].name) < StrRank(deps[j].name)
                 \/ /\ deps[i].name = deps[j].name
                    /\ StrRank(deps[i].id) < StrRank(deps[j].id)

C5_SortedOrder ==
    /\ \A k \in DOMAIN stack :
          /\ Ascending(stack[k].deps)
          /\ {stack[k].deps[n] : n \in DOMAIN stack[k].deps}
                = DirectDeps(root_package, stack[k].package)
    /\ \A i, j \in DepLines :
          LaterSibling(i, j) => Ascending(<<stdout[i].dep, stdout[j].dep>>)
    /\ Rendered =>
          \A i \in DepLines :
              ~stdout[i].shared =>
                  LET kids == InOrder(Children(i)) IN
                  /\ Ascending(kids)
                  /\ Len(kids) = OutDegree(stdout[i].dep.id)

\* Two packages each under both names: whichever comes first is expanded.
C5_Witness ==
    /\ Rendered
    /\ \E i, j \in DepLines :
          /\ LaterSibling(i, j)
          /\ stdout[i].depth = 0
          /\ stdout[i].dep.id = "b_1" /\ stdout[j].dep.id = "a"
          /\ \E k \in Children(i) : stdout[k].dep.id = "a" /\ ~stdout[k].shared
          /\ stdout[j].shared

(***************************************************************************)
(* C6: in both trees exactly the last sibling of a level carries the       *)
(* terminal branch marker and every other one the through marker; a child  *)
(* line's prefix is its parent's prefix followed by the parent's           *)
(* continuation segment, blank under a last sibling and vertical under any *)
(* other, so a line at depth d is prefixed by d segments.                  *)
(***************************************************************************)
TreeLines == {i \in 1..Len(stdout) : stdout[i].kind \in {"dep", "module", "function"}}

Continuation(i) ==
    IF stdout[i].branch = TerminalBranch THEN BlankContinuation ELSE VerticalContinuation

C6_BranchMarkers ==
    /\ \A i \in TreeLines :
          /\ stdout[i].branch \in {TerminalBranch, ThroughBranch}
          /\ Len(stdout[i].prefix) = stdout[i].depth
          /\ stdout[i].depth > 0 => \E parent \in TreeLines : i \in Children(parent)
          /\ \A j \in Children(i) :
                stdout[j].prefix = stdout[i].prefix \o <<Continuation(i)>>
          /\ stdout[i].branch = TerminalBranch =>
                ~\E j \in TreeLines : LaterSibling(i, j)
    /\ Rendered =>
          \A i \in TreeLines :
              stdout[i].branch = ThroughBranch => \E j \in TreeLines : LaterSibling(i, j)

\* A module of three functions that is not the last module.
C6_Witness ==
    /\ Rendered
    /\ \E i \in TreeLines :
          /\ stdout[i].kind = "module"
          /\ stdout[i].branch = ThroughBranch
          /\ Cardinality(Children(i)) = 3
          /\ \E j \in Children(i) : stdout[j].branch = TerminalBranch

(***************************************************************************)
(* C7: what collect_modules returns depends on the names alone: modules    *)
(* ascend by name, the functions of each module ascend by name, and any    *)
(* reordering of the root modules or of a module's function definitions    *)
(* gives the same sequence.                                                *)
(***************************************************************************)
Reorderings(s) == {[i \in DOMAIN s |-> s[p[i]]] : p \in Permutations(DOMAIN s)}

NamesAscend(s) == \A i, j \in DOMAIN s : i < j => StrRank(s[i].name) < StrRank(s[j].name)

C7_OrderByName ==
    pc = "print_package_tree" =>
        /\ NamesAscend(modules)
        /\ \A i \in DOMAIN modules : NamesAscend(modules[i].functions)
        /\ Len(modules) = Len(compiled)
        /\ \A k \in DOMAIN compiled :
              \E i \in DOMAIN modules :
                 /\ modules[i].name = ModuleName(compiled[k])
                 /\ {f.name : f \in Range(modules[i].functions)}
                       = {FunctionHandles[d.function].name :
                             d \in {e \in Range(compiled[k].function_defs) :
                                       e.visibility = "Public"}}
        /\ \A reordered \in Reorderings(compiled) : CollectModules(reordered) = modules
        /\ \A k \in DOMAIN compiled :
              \A defs \in Reorderings(compiled[k].function_defs) :
                 CollectModules([compiled EXCEPT ![k].function_defs = defs]) = modules

\* market before coin, mint before burn: the result has coin and burn first.
C7_Witness ==
    /\ pc = "print_package_tree"
    /\ Len(compiled) = 2
    /\ ModuleName(compiled[1]) = "market"
    /\ compiled[2].function_defs
          = <<[function |-> 1, visibility |-> "Public"],
              [function |-> 3, visibility |-> "Public"]>>
    /\ modules[1].name = "coin"
    /\ modules[1].functions[1].name = "burn"
    /\ modules[1].functions[2].name = "mint"

(***************************************************************************)
(* C8: format_signature_token gives every token the string of the          *)
(* recursive definition: a primitive its keyword, vector<..>, &.., &mut .., *)
(* T and the index, a datatype its bare name in its own module and         *)
(* module::name elsewhere, followed by <a1, a2, ...> exactly when there    *)
(* are type arguments, so never by "<>".                                   *)
(***************************************************************************)
Keyword ==
    [Bool |-> "bool", U8 |-> "u8", U16 |-> "u16", U32 |-> "u32", U64 |-> "u64",
     U128 |-> "u128", U256 |-> "u256", Address |-> "address", Signer |-> "signer"]

\* The module a datatype handle belongs to is the module being formatted.
OwnedBy(m, handle_index) ==
    ModuleHandles[DatatypeHandles[handle_index].module]
        = ModuleHandles[m.self_module_handle_idx]

RECURSIVE Defined(_, _)
Defined(m, tok) ==
    LET Typed(handle_index, args) ==
            LET type_name == DatatypeHandles[handle_index].name
                owner == ModuleHandles[DatatypeHandles[handle_index].module].name
                base == IF OwnedBy(m, handle_index) THEN <<type_name>>
                        ELSE <<owner, "::", type_name>>
                list[i \in 0..Len(args)] ==
                    IF i = 0 THEN <<>>
                    ELSE list[i - 1] \o (IF i > 1 THEN <<", ">> ELSE <<>>)
                            \o Defined(m, args[i])
            IN  IF Len(args) = 0 THEN base ELSE base \o <<"<">> \o list[Len(args)] \o <<">">>
    IN  IF tok.tag \in Primitives THEN <<Keyword[tok.tag]>>
        ELSE IF tok.tag = "Vector" THEN <<"vector<">> \o Defined(m, tok.inner) \o <<">">>
        ELSE IF tok.tag = "Reference" THEN <<"&">> \o Defined(m, tok.inner)
        ELSE IF tok.tag = "MutableReference" THEN <<"&mut ">> \o Defined(m, tok.inner)
        ELSE IF tok.tag = "TypeParameter" THEN <<"T", ToString(tok.index)>>
        ELSE IF tok.tag = "Datatype" THEN Typed(tok.handle, <<>>)
        ELSE Typed(tok.handle, tok.args)

NoEmptyBrackets(s) ==
    \A i \in 1..(Len(s) - 1) : ~(s[i] \in {"<", "vector<"} /\ s[i + 1] = ">")

C8_FormatDefined ==
    pc = "formatted" =>
        /\ formatted = Defined(module, token)
        /\ formatted # <<>>
        /\ NoEmptyBrackets(formatted)

\* 0x0::coin::Coin<u64, 0x2::coin::Coin> formatted in 0x0::coin.
C8_Witness ==
    /\ pc = "formatted"
    /\ module.self_module_handle_idx = 1
    /\ token = DatatypeInstantiation(1, <<Primitive("U64"), Datatype(3)>>)
    /\ formatted = <<"Coin", "<", "u64", ", ", "coin", "::", "Coin", ">">>

(***************************************************************************)
(* C9: compile_package and load_dependency_graph try the environments one  *)
(* at a time in the order they are listed, return the first success        *)
(* without a further attempt, report the name and cause of the last        *)
(* attempt when all fail, and with no environment make no attempt and      *)
(* return the error of their own "no environments available".              *)
(***************************************************************************)
Succeeded == {i \in DOMAIN attempts : attempts[i].outcome = "Ok"}

C9_Fallback ==
    envs # None =>
        /\ Len(attempts) <= Len(envs[1])
        /\ \A i \in DOMAIN attempts : attempts[i].name = envs[1][i]
        /\ \A i \in Succeeded : i = Len(attempts)
        /\ pc = "attempts" => Succeeded = {} /\ result = None
        /\ pc = "returned" =>
              IF Succeeded # {}
              THEN result[1].ok /\ result[1].value \in Loaded
              ELSE /\ Len(attempts) = Len(envs[1])
                   /\ ~result[1].ok
                   /\ IF envs[1] = <<>>
                      THEN result[1].error
                              = [message |-> "no environments available to " \o Task,
                                 path |-> CurrentRoot]
                      ELSE result[1].error
                              = [message |-> "unable to " \o Task
                                       \o " for any environment; last attempt failed",
                                 name |-> envs[1][Len(envs[1])],
                                 err |-> attempts[Len(attempts)].outcome]

\* Two attempts that failed of different causes: the second is the one reported.
C9_Witness ==
    /\ pc = "returned"
    /\ envs # None
    /\ Len(attempts) = 2
    /\ attempts[1].outcome = "cause_1"
    /\ attempts[2].outcome = "cause_2"
    /\ ~result[1].ok
    /\ result[1].error.name = envs[1][2]
    /\ result[1].error.err = "cause_2"

(***************************************************************************)
(* C10: main takes the package roots one after the other in the order      *)
(* find_move_packages lists them and renders a root only once its          *)
(* external call has succeeded; when the call fails no header and no tree  *)
(* line is printed for the root, and main returns an error naming the      *)
(* root's path.                                                            *)
(***************************************************************************)
HeaderLines == {i \in 1..Len(stdout) : stdout[i].kind = "header"}

\* The path a header line names: none for args.path itself.
HeaderPath(line) == IF Len(line.label) = 3 THEN <<>> ELSE <<line.label[6]>>

\* The paths of the header lines, in output order.
HeaderPaths ==
    LET pick[n \in 0..Cardinality(HeaderLines)] ==
            IF n = 0 THEN <<>>
            ELSE LET i == CHOOSE i \in HeaderLines :
                              Cardinality({j \in HeaderLines : j < i}) = n - 1
                 IN  Append(pick[n - 1], HeaderPath(stdout[i]))
    IN  pick[Cardinality(HeaderLines)]

Calling == pc \in {"environments", "attempts", "returned"}

Rendering ==
    pc \in {"print_dependency_graph", "print_dependency_tree", "collect_modules",
            "print_package_tree", "module_loop", "function_loop", "rendered"}

\* Nothing is printed after the separator that precedes the current root.
NothingForCurrentRoot ==
    /\ Len(HeaderPaths) = root_index - 1
    /\ IF root_index = 1 THEN stdout = <<>> ELSE stdout[Len(stdout)].kind = "blank"

C10_RenderAfterSuccess ==
    /\ \A i, j \in DOMAIN package_roots :
          i < j => PathRank(package_roots[i]) < PathRank(package_roots[j])
    /\ HeaderPaths = SubSeq(package_roots, 1, Len(HeaderPaths))
    /\ Calling => NothingForCurrentRoot
    /\ Rendering =>
          /\ result # None /\ result[1].ok
          /\ Len(HeaderPaths) \in {root_index - 1, root_index}
          /\ pc \notin {"print_dependency_graph", "collect_modules", "print_package_tree"}
                => Len(HeaderPaths) = root_index
    /\ (result # None /\ ~result[1].ok) => pc \in {"returned", "exit"}
    /\ (pc = "exit" /\ package_roots # <<>>) =>
          IF result[1].ok
          THEN exit = Some(Ok(Unit)) /\ HeaderPaths = package_roots
          ELSE /\ exit = Some(Err([message |-> "Failed to " \o Task \o " at",
                                   path |-> package_roots[root_index],
                                   source |-> result[1].error]))
               /\ NothingForCurrentRoot
    /\ pc = "exit" => ~ENABLED NextMain

\* The second root's external call failed after the first root was rendered.
C10_Witness ==
    /\ pc = "exit"
    /\ exit # None
    /\ ~exit[1].ok
    /\ root_index = 2
    /\ exit[1].error.path = <<"b">>
    /\ Len(HeaderPaths) = 1
    /\ Len(stdout) > 2
    /\ stdout[Len(stdout)].kind = "blank"

SpecDepsFair == SpecDeps /\ WF_vars(NextDeps)

====
